---- MODULE Spec2Model ----
(***************************************************************************)
(* The client-side view-state machine of the statement-analysis front end. *)
(*                                                                         *)
(* src/frontend/app/components/StatementAnalysis.tsx holds two components  *)
(* named StatementAnalysis:                                                *)
(*   - the platform-variant (lines 1277-1443): views 'home',               *)
(*     'phonepe-analysis', 'kotak-analysis', ...; POST /analyze carries a  *)
(*     `platform` field; failures are shown with alert();                  *)
(*   - the bank-variant (lines 1452-1609): views 'home', 'kotak',          *)
(*     'phonepe'; POST /analyze carries a `bank` field; failures are kept  *)
(*     in errorMessage; every view change goes through handleViewChange.   *)
(* A page mounts one of them; `variant` says which.  The variables carry   *)
(* the names of the React state they model.                                *)
(*                                                                         *)
(* One action is one event handler run to its first await, or the          *)
(* continuation of analyzeStatement after its awaits.  React commits the   *)
(* state updates of a handler before the next event is dispatched, so the  *)
(* controls an event can reach are those of the screen rendered from the   *)
(* current state.                                                          *)
(*                                                                         *)
(* The recent-transactions list of the two ResultsView components is       *)
(* modelled by SpecResultsView, whose inputs are bounded transaction       *)
(* lists.                                                                  *)
(***************************************************************************)
EXTENDS Integers, FiniteSets, Sequences

VARIABLES
    variant,          \* which StatementAnalysis component is mounted
    mounted,          \* platform-variant: useState(false), set by the mount effect
    currentView,      \* useState<View>('home')
    isSearchOpen,     \* platform-variant: useState(false)
    selectedFile,     \* useState<File | null>(null)
    analysisState,    \* useState<AnalysisState>('upload')
    analysisResults,  \* useState<AnalysisResult | null>(null)
    errorMessage,     \* bank-variant: useState<string | null>(null)
    requests,         \* the POST /analyze requests whose promise is pending
    response,         \* what the step into this state received from the backend
    alert,            \* the alert() the step into this state showed
    transactions,     \* ResultsView: analysisResults.transactions of its props
    recentTransactions \* ResultsView: the rows of its recent-transactions list

vars == <<variant, mounted, currentView, isSearchOpen, selectedFile,
          analysisState, analysisResults, errorMessage, requests, response,
          alert, transactions, recentTransactions>>

\* How many POST /analyze requests may be pending at once in the model.
MaxOutstanding == 2

Null == "null"

----------------------------------------------------------------------------
(* Types *)

\* StatementAnalysis.tsx:79
PlatformView ==
    {"home", "settings", "phonepe-analysis", "kotak-analysis", "more-upi-apps",
     "more-banks", "profile", "notifications", "notifications-settings",
     "report-issue", "signin", "banks", "upi-apps", "account-settings",
     "refer-and-and-earn", "favorites", "history"}

\* types/analysis.ts:34
BankView == {"home", "kotak", "phonepe", "results"}

\* StatementAnalysis.tsx:81, types/analysis.ts:36
AnalysisState == {"upload", "analyzing", "results"}

\* The files a user can pick or drop: a File has a name and a MIME type.
Files ==
    {[name |-> "jan.pdf", type |-> "application/pdf"],
     [name |-> "feb.pdf", type |-> "application/pdf"],
     [name |-> "notes.txt", type |-> "text/plain"]}

\* event.target.files?.[0] of an event that carries no file.
NoFile == [name |-> Null, type |-> Null]

FileInputs == Files \cup {NoFile}

\* Truthiness of `file` in `if (file && ...)`.
HasFile(file) == file # NoFile

----------------------------------------------------------------------------
(* The backend's answers *)

\* HTTP statuses the backend answers with; response.ok is 200..299.
Statuses == {200, 422, 500}

ResponseOk(status) == status >= 200 /\ status <= 299

\* Response bodies: text that is not JSON, the JSON value null, two analysis
\* results, an error object with a `detail` field and an object without one.
Bodies == {"NotJson", "JsonNull", "Result1", "Result2", "DetailObject", "EmptyObject"}

\* What the backend can do with a request: answer it, or fail at the network.
Outcomes ==
    [kind : {"http"}, status : Statuses, body : Bodies]
        \cup {[kind |-> "network", status |-> 0, body |-> "NotJson"]}

NoResponse == [id |-> 0, kind |-> "none", status |-> 0, body |-> "NotJson"]

\* await response.json(): the parsed value (null for the JSON value null).
ParseJson(body) == IF body = "JsonNull" THEN Null ELSE body

\* `data.detail`: the detail string of an error object, undefined otherwise.
Detail(body) == IF body = "DetailObject" THEN "Invalid statement" ELSE Null

\* `HTTP error! status: ${response.status}`
HttpErrorText(status) ==
    CASE status = 200 -> "HTTP error! status: 200"
      [] status = 422 -> "HTTP error! status: 422"
      [] status = 500 -> "HTTP error! status: 500"
      [] OTHER -> "HTTP error! status: ?"

\* The message of the error that reaches the catch block of analyzeStatement,
\* or Null when the try block completes.  `fallback` is the text thrown for a
\* non-OK answer that has no detail.
\*   fetch rejects                      -> TypeError('Failed to fetch')
\*   response.json() rejects            -> SyntaxError
\*   !response.ok, body null            -> TypeError reading `detail` of null
\*   !response.ok                       -> Error(detail || fallback)
ThrownMessage(out, fallback) ==
    CASE out.kind = "network" -> "Failed to fetch"
      [] out.kind = "http" /\ out.body = "NotJson" -> "Unexpected token in JSON"
      [] out.kind = "http" /\ out.body # "NotJson" /\ ~ResponseOk(out.status) ->
            IF out.body = "JsonNull" THEN "Cannot read properties of null"
            ELSE IF Detail(out.body) # Null THEN Detail(out.body)
            ELSE fallback
      [] OTHER -> Null

Succeeds(out) == ThrownMessage(out, "x") = Null

----------------------------------------------------------------------------
(* Requests *)

RequestIds == 1..MaxOutstanding

FreeIds == RequestIds \ {r.id : r \in requests}

\* fetch(`${backendUrl}/analyze`, {method: 'POST', body: formData}): the form
\* has the file and one discriminator field.
NewRequest(file, field, value) ==
    [id |-> CHOOSE i \in FreeIds : \A j \in FreeIds : i <= j,
     method |-> "POST", path |-> "/analyze",
     file |-> file, field |-> field, value |-> value]

----------------------------------------------------------------------------
(* Initial state *)

\* The initial state with useState<AnalysisState>('analyzing').
InitAnalyzing ==
    /\ variant \in {"platform", "bank"}
    /\ mounted = FALSE
    /\ currentView = "home"
    /\ isSearchOpen = FALSE
    /\ selectedFile = NoFile
    /\ analysisState = "analyzing"
    /\ analysisResults = Null
    /\ errorMessage = Null
    /\ requests = {}
    /\ response = NoResponse
    /\ alert = <<>>
    /\ transactions = <<>>
    /\ recentTransactions = <<>>

\* StatementAnalysis.tsx:1286-1294 and 1453-1458
Init ==
    /\ variant \in {"platform", "bank"}
    /\ mounted = FALSE
    /\ currentView = "home"
    /\ isSearchOpen = FALSE
    /\ selectedFile = NoFile
    /\ analysisState = "upload"
    /\ analysisResults = Null
    /\ errorMessage = Null
    /\ requests = {}
    /\ response = NoResponse
    /\ alert = <<>>
    /\ transactions = <<>>
    /\ recentTransactions = <<>>

----------------------------------------------------------------------------
(* Platform-variant: rendering *)

\* renderCurrentView with the components of the two analysis cases exchanged.
renderCurrentViewSwapped(view) ==
    CASE view = "home" -> "HomeView"
      [] view = "phonepe-analysis" -> "KotakAnalysisView"
      [] view = "kotak-analysis" -> "PhonePeAnalysisView"
      [] view = "more-upi-apps" -> "MoreUpiAppsView"
      [] view = "more-banks" -> "BanksView"
      [] view = "settings" -> "SettingsView"
      [] view = "account-settings" -> "AccountSettingsView"
      [] view = "refer-and-and-earn" -> "ReferAndEarnView"
      [] view = "banks" -> "BanksView"
      [] view = "upi-apps" -> "UPIAppsView"
      [] OTHER -> "HomeView"

\* renderCurrentView (StatementAnalysis.tsx:1372-1421): the screen the switch
\* returns for a view.
renderCurrentView(view) ==
    CASE view = "home" -> "HomeView"
      [] view = "phonepe-analysis" -> "PhonePeAnalysisView"
      [] view = "kotak-analysis" -> "KotakAnalysisView"
      [] view = "more-upi-apps" -> "MoreUpiAppsView"
      [] view = "more-banks" -> "BanksView"
      [] view = "settings" -> "SettingsView"
      [] view = "account-settings" -> "AccountSettingsView"
      [] view = "refer-and-and-earn" -> "ReferAndEarnView"
      [] view = "banks" -> "BanksView"
      [] view = "upi-apps" -> "UPIAppsView"
      [] OTHER -> "HomeView"

\* What the platform-variant returns (1423-1433): a spinner until the mount
\* effect has run, then renderCurrentView().
PlatformScreen ==
    IF ~mounted THEN "LoadingSpinner" ELSE renderCurrentView(currentView)

\* renderContent of PhonePeAnalysisView / KotakAnalysisView (757-800, 834-874):
\* what an analysis screen shows under its header.
AnalysisContent(state, results) ==
    CASE state = "upload" -> "UploadZone"
      [] state = "analyzing" -> "Analyzing"
      [] state = "results" ->
            IF results = Null THEN "ResultsNotAvailable" ELSE "ResultsView"
      [] OTHER -> "Nothing"

AnalysisScreens == {"PhonePeAnalysisView", "KotakAnalysisView"}

\* The navigation targets with a home screen that also links to the
\* 'more-upi-apps' view.
NavTargetsPWithMoreApps(screen) ==
    CASE screen = "HomeView" ->
            {"phonepe-analysis", "kotak-analysis", "more-upi-apps"}
      [] screen \in AnalysisScreens -> {"home"}
      [] screen = "MoreUpiAppsView" -> {"home"}
      [] screen = "BanksView" -> {"home"}
      [] screen = "UPIAppsView" -> {"home"}
      [] screen = "SettingsView" ->
            {"account-settings", "notifications-settings", "home"}
      [] screen = "AccountSettingsView" -> {"settings"}
      [] screen = "ReferAndEarnView" -> {"settings"}
      [] OTHER -> {}

\* The views the controls of a platform screen pass to setCurrentView.
NavTargetsP(screen) ==
    CASE screen = "HomeView" -> {"phonepe-analysis", "kotak-analysis"}
      [] screen \in AnalysisScreens -> {"home"}
      [] screen = "MoreUpiAppsView" -> {"home"}
      [] screen = "BanksView" -> {"home"}
      [] screen = "UPIAppsView" -> {"home"}
      [] screen = "SettingsView" ->
            {"account-settings", "notifications-settings", "home"}
      [] screen = "AccountSettingsView" -> {"settings"}
      [] screen = "ReferAndEarnView" -> {"settings"}
      [] OTHER -> {}

\* The controls a click can reach.  The open SearchModal covers the screen
\* (fixed inset-0) and offers onClose; otherwise the screen's own controls:
\* its setCurrentView buttons and, on MoreUpiAppsView, toggleSearchModal.
ControlsP ==
    IF isSearchOpen /\ mounted
    THEN {[kind |-> "onClose", view |-> Null]}
    ELSE {[kind |-> "setCurrentView", view |-> v] : v \in NavTargetsP(PlatformScreen)}
         \cup (IF PlatformScreen = "MoreUpiAppsView"
               THEN {[kind |-> "toggleSearchModal", view |-> Null]} ELSE {})

\* The upload zone rendered in every analysisState.
UploadZoneAlwaysRenderedP ==
    /\ PlatformScreen \in AnalysisScreens
    /\ ~isSearchOpen

\* The upload zone (drop target and file input) is part of the 'upload'
\* content of an analysis screen.
UploadZoneRenderedP ==
    /\ PlatformScreen \in AnalysisScreens
    /\ ~isSearchOpen
    /\ AnalysisContent(analysisState, analysisResults) = "UploadZone"

----------------------------------------------------------------------------
(* Platform-variant: handlers *)

\* useEffect(() => setMounted(true), []) (1296-1298)
Mount ==
    /\ variant = "platform"
    /\ ~mounted
    /\ mounted' = TRUE
    /\ response' = NoResponse
    /\ alert' = <<>>
    /\ UNCHANGED <<transactions, recentTransactions>>
    /\ UNCHANGED <<variant, currentView, isSearchOpen, selectedFile,
                   analysisState, analysisResults, errorMessage, requests>>

\* A click whose setCurrentView also clears the selected file.
ClickPClearsFile ==
    /\ variant = "platform"
    /\ \E c \in ControlsP :
         /\ currentView' = IF c.kind = "setCurrentView" THEN c.view ELSE currentView
         /\ isSearchOpen' = CASE c.kind = "toggleSearchModal" -> ~isSearchOpen
                              [] c.kind = "onClose" -> FALSE
                              [] OTHER -> isSearchOpen
    /\ selectedFile' = NoFile
    /\ response' = NoResponse
    /\ alert' = <<>>
    /\ UNCHANGED <<transactions, recentTransactions>>
    /\ UNCHANGED <<variant, mounted, analysisState, analysisResults,
                   errorMessage, requests>>

\* A click whose setCurrentView also puts a finished flow back to 'upload'.
ClickPRestartsFlow ==
    /\ variant = "platform"
    /\ \E c \in ControlsP :
         /\ currentView' = IF c.kind = "setCurrentView" THEN c.view ELSE currentView
         /\ isSearchOpen' = CASE c.kind = "toggleSearchModal" -> ~isSearchOpen
                              [] c.kind = "onClose" -> FALSE
                              [] OTHER -> isSearchOpen
    /\ analysisState' = IF analysisState = "results" THEN "upload" ELSE analysisState
    /\ response' = NoResponse
    /\ alert' = <<>>
    /\ UNCHANGED <<transactions, recentTransactions>>
    /\ UNCHANGED <<variant, mounted, selectedFile, analysisResults,
                   errorMessage, requests>>

\* A click on a control of the rendered screen.
ClickP ==
    /\ variant = "platform"
    /\ \E c \in ControlsP :
         /\ currentView' = IF c.kind = "setCurrentView" THEN c.view ELSE currentView
         /\ isSearchOpen' = CASE c.kind = "toggleSearchModal" -> ~isSearchOpen
                              [] c.kind = "onClose" -> FALSE
                              [] OTHER -> isSearchOpen
    /\ response' = NoResponse
    /\ alert' = <<>>
    /\ UNCHANGED <<transactions, recentTransactions>>
    /\ UNCHANGED <<variant, mounted, selectedFile, analysisState,
                   analysisResults, errorMessage, requests>>

\* The file check without its MIME type test.
IsAnyFile(file) == HasFile(file)

\* `file && file.type === 'application/pdf'` (1306, 1325)
IsPdfFile(file) == HasFile(file) /\ file.type = "application/pdf"

\* The platform field with the two branches exchanged.
PlatformOfSwapped(view) ==
    IF view = "phonepe-analysis" THEN "kotak"
    ELSE IF view = "kotak-analysis" THEN "phonepe"
    ELSE "phonepe"

\* The platform field analyzeStatement appends (1339-1348).
PlatformOf(view) ==
    IF view = "phonepe-analysis" THEN "phonepe"
    ELSE IF view = "kotak-analysis" THEN "kotak"
    ELSE "phonepe"

\* analyzeStatement up to `await fetch(...)` (1334-1355).
analyzeStatementP(file) ==
    /\ FreeIds # {}
    /\ analysisState' = "analyzing"
    /\ requests' = requests \cup {NewRequest(file, "platform", PlatformOf(currentView))}

\* handleFileSelect / handleDrop (1304-1313, 1320-1332); `text` is the alert
\* of the else branch.
SelectOrDropP(file, text) ==
    /\ variant = "platform"
    /\ UploadZoneRenderedP
    /\ IF IsPdfFile(file)
       THEN /\ selectedFile' = file
            /\ analyzeStatementP(file)
            /\ alert' = <<>>
       ELSE /\ alert' = <<text>>
            /\ analysisState' = "upload"
            /\ UNCHANGED <<selectedFile, requests>>
    /\ response' = NoResponse
    /\ UNCHANGED <<transactions, recentTransactions>>
    /\ UNCHANGED <<variant, mounted, currentView, isSearchOpen,
                   analysisResults, errorMessage>>

handleFileSelectP == \E file \in FileInputs :
    SelectOrDropP(file, "Please select a valid PDF file")

handleDropP == \E file \in FileInputs :
    SelectOrDropP(file, "Please drop a valid PDF file")

\* The continuation with setAnalysisResults placed before the response.ok test.
CompletePResultsBeforeOkTest(r, out) ==
    /\ requests' = requests \ {r}
    /\ response' = [id |-> r.id, kind |-> out.kind, status |-> out.status,
                    body |-> out.body]
    /\ IF Succeeds(out)
       THEN /\ analysisResults' = ParseJson(out.body)
            /\ analysisState' = "results"
            /\ alert' = <<>>
       ELSE /\ alert' = <<"Analysis failed: ",
                          ThrownMessage(out, "Failed to analyze statement")>>
            /\ analysisState' = "upload"
            /\ analysisResults' =
                  IF out.kind = "http" /\ out.body # "NotJson"
                  THEN ParseJson(out.body) ELSE analysisResults
    /\ UNCHANGED <<transactions, recentTransactions>>
    /\ UNCHANGED <<variant, mounted, currentView, isSearchOpen, selectedFile,
                   errorMessage>>

\* The continuation with a catch block that does not go back to 'upload'.
CompletePStaysAnalyzing(r, out) ==
    /\ requests' = requests \ {r}
    /\ response' = [id |-> r.id, kind |-> out.kind, status |-> out.status,
                    body |-> out.body]
    /\ IF Succeeds(out)
       THEN /\ analysisResults' = ParseJson(out.body)
            /\ analysisState' = "results"
            /\ alert' = <<>>
       ELSE /\ alert' = <<"Analysis failed: ",
                          ThrownMessage(out, "Failed to analyze statement")>>
            /\ UNCHANGED <<analysisState, analysisResults>>
    /\ UNCHANGED <<transactions, recentTransactions>>
    /\ UNCHANGED <<variant, mounted, currentView, isSearchOpen, selectedFile,
                   errorMessage>>

\* analyzeStatement after its awaits (1357-1369): the try block's tail or the
\* catch block, for request r answered with `out`.
CompleteP(r, out) ==
    /\ requests' = requests \ {r}
    /\ response' = [id |-> r.id, kind |-> out.kind, status |-> out.status,
                    body |-> out.body]
    /\ IF Succeeds(out)
       THEN /\ analysisResults' = ParseJson(out.body)
            /\ analysisState' = "results"
            /\ alert' = <<>>
       ELSE /\ alert' = <<"Analysis failed: ",
                          ThrownMessage(out, "Failed to analyze statement")>>
            /\ analysisState' = "upload"
            /\ UNCHANGED analysisResults
    /\ UNCHANGED <<transactions, recentTransactions>>
    /\ UNCHANGED <<variant, mounted, currentView, isSearchOpen, selectedFile,
                   errorMessage>>

analyzeStatementDoneP ==
    /\ variant = "platform"
    /\ \E r \in requests, out \in Outcomes : CompleteP(r, out)

----------------------------------------------------------------------------
(* Bank-variant: rendering *)

\* renderContent (StatementAnalysis.tsx:1559-1590)
renderContent(view) ==
    CASE view = "home" -> "renderHomeView"
      [] view = "kotak" -> "KotakAnalysisView"
      [] view = "phonepe" -> "PhonePeComingSoon"
      [] OTHER -> "renderHomeView"

BankScreen == renderContent(currentView)

\* The ServiceCards with the PhonePe card enabled.
ServiceCardsAllEnabled ==
    {[view |-> "kotak", disabled |-> FALSE],
     [view |-> "phonepe", disabled |-> FALSE]}

\* The ServiceCards of renderHomeView (1538-1557): the view each passes to
\* handleViewChange and its `disabled` prop.
ServiceCards ==
    {[view |-> "kotak", disabled |-> FALSE],
     [view |-> "phonepe", disabled |-> TRUE]}

\* The views the controls of a bank screen pass to handleViewChange.  A
\* disabled button dispatches no click (ServiceCard, 1619-1629).
NavTargetsB(screen) ==
    CASE screen = "renderHomeView" -> {c.view : c \in {d \in ServiceCards : ~d.disabled}}
      [] screen = "KotakAnalysisView" -> {"home"}
      [] screen = "PhonePeComingSoon" -> {"home"}
      [] OTHER -> {}

\* KotakAnalysisView.renderContent (UPIAppGrid.tsx:135-182): the upload zone
\* is the 'upload' case; the error banner sits in it when errorMessage is set.
UploadZoneRenderedB ==
    /\ BankScreen = "KotakAnalysisView"
    /\ AnalysisContent(analysisState, analysisResults) = "UploadZone"

ErrorBannerRendered == UploadZoneRenderedB /\ errorMessage # Null

----------------------------------------------------------------------------
(* Bank-variant: handlers *)

\* resetState without setAnalysisResults(null).
resetStateKeepsResults ==
    /\ selectedFile' = NoFile
    /\ analysisState' = "upload"
    /\ UNCHANGED analysisResults
    /\ errorMessage' = Null

\* resetState without setAnalysisState('upload').
resetStateKeepsState ==
    /\ selectedFile' = NoFile
    /\ UNCHANGED analysisState
    /\ analysisResults' = Null
    /\ errorMessage' = Null

\* resetState (1460-1468)
resetState ==
    /\ selectedFile' = NoFile
    /\ analysisState' = "upload"
    /\ analysisResults' = Null
    /\ errorMessage' = Null

\* handleViewChange (1470-1473)
handleViewChange(view) ==
    /\ resetState
    /\ currentView' = view

\* A click on a ServiceCard or a back button.
ClickB ==
    /\ variant = "bank"
    /\ \E view \in NavTargetsB(BankScreen) : handleViewChange(view)
    /\ response' = NoResponse
    /\ alert' = <<>>
    /\ UNCHANGED <<transactions, recentTransactions>>
    /\ UNCHANGED <<variant, mounted, isSearchOpen, requests>>

\* A Dismiss button wired to the whole reset instead of setErrorMessage(null).
DismissResets ==
    /\ variant = "bank"
    /\ ErrorBannerRendered
    /\ selectedFile' = NoFile
    /\ analysisState' = "upload"
    /\ analysisResults' = Null
    /\ errorMessage' = Null
    /\ response' = NoResponse
    /\ alert' = <<>>
    /\ UNCHANGED <<transactions, recentTransactions>>
    /\ UNCHANGED <<variant, mounted, currentView, isSearchOpen, requests>>

\* The Dismiss button of the error banner: setErrorMessage(null)
\* (UPIAppGrid.tsx:162).
Dismiss ==
    /\ variant = "bank"
    /\ ErrorBannerRendered
    /\ errorMessage' = Null
    /\ response' = NoResponse
    /\ alert' = <<>>
    /\ UNCHANGED <<transactions, recentTransactions>>
    /\ UNCHANGED <<variant, mounted, currentView, isSearchOpen, selectedFile,
                   analysisState, analysisResults, requests>>

\* `file && (currentView === 'kotak' || currentView === 'phonepe')` (1519, 1532)
IsAcceptedB(file, view) == HasFile(file) /\ view \in {"kotak", "phonepe"}

\* analyzeStatement without setAnalysisState('analyzing').
analyzeStatementBWithoutAnalyzing(file, bank) ==
    /\ FreeIds # {}
    /\ UNCHANGED analysisState
    /\ errorMessage' = Null
    /\ requests' = requests \cup {NewRequest(file, "bank", bank)}

\* analyzeStatement up to `await fetch(...)` (1475-1495).
analyzeStatementB(file, bank) ==
    /\ FreeIds # {}
    /\ analysisState' = "analyzing"
    /\ errorMessage' = Null
    /\ requests' = requests \cup {NewRequest(file, "bank", bank)}

\* handleFileSelect / handleDrop (1517-1523, 1529-1536).  The file input's
\* accept=".pdf" only guides the file chooser; a drop is not filtered at all.
SelectOrDropB(file) ==
    /\ variant = "bank"
    /\ UploadZoneRenderedB
    /\ IF IsAcceptedB(file, currentView)
       THEN /\ selectedFile' = file
            /\ analyzeStatementB(file, currentView)
       ELSE UNCHANGED <<selectedFile, analysisState, errorMessage, requests>>
    /\ response' = NoResponse
    /\ alert' = <<>>
    /\ UNCHANGED <<transactions, recentTransactions>>
    /\ UNCHANGED <<variant, mounted, currentView, isSearchOpen, analysisResults>>

handleFileSelectB == \E file \in FileInputs : SelectOrDropB(file)

handleDropB == \E file \in FileInputs : SelectOrDropB(file)

\* `error.message || 'An unknown error occurred during analysis.'` (1511)
MessageOrUnknown(message) ==
    IF message = "" THEN "An unknown error occurred during analysis." ELSE message

\* The continuation with a catch block that also clears the results.
CompleteBClearsResults(r, out) ==
    /\ requests' = requests \ {r}
    /\ response' = [id |-> r.id, kind |-> out.kind, status |-> out.status,
                    body |-> out.body]
    /\ IF Succeeds(out)
       THEN /\ analysisResults' = ParseJson(out.body)
            /\ analysisState' = "results"
            /\ UNCHANGED errorMessage
       ELSE /\ errorMessage' =
                  MessageOrUnknown(ThrownMessage(out, HttpErrorText(out.status)))
            /\ analysisState' = "upload"
            /\ analysisResults' = Null
    /\ alert' = <<>>
    /\ UNCHANGED <<transactions, recentTransactions>>
    /\ UNCHANGED <<variant, mounted, currentView, isSearchOpen, selectedFile>>

\* analyzeStatement after its awaits (1497-1514).
CompleteB(r, out) ==
    /\ requests' = requests \ {r}
    /\ response' = [id |-> r.id, kind |-> out.kind, status |-> out.status,
                    body |-> out.body]
    /\ IF Succeeds(out)
       THEN /\ analysisResults' = ParseJson(out.body)
            /\ analysisState' = "results"
            /\ UNCHANGED errorMessage
       ELSE /\ errorMessage' =
                  MessageOrUnknown(ThrownMessage(out, HttpErrorText(out.status)))
            /\ analysisState' = "upload"
            /\ UNCHANGED analysisResults
    /\ alert' = <<>>
    /\ UNCHANGED <<transactions, recentTransactions>>
    /\ UNCHANGED <<variant, mounted, currentView, isSearchOpen, selectedFile>>

analyzeStatementDoneB ==
    /\ variant = "bank"
    /\ \E r \in requests, out \in Outcomes : CompleteB(r, out)

----------------------------------------------------------------------------
(* Specification *)

Next ==
    \/ Mount
    \/ ClickP
    \/ handleFileSelectP
    \/ handleDropP
    \/ analyzeStatementDoneP
    \/ ClickB
    \/ Dismiss
    \/ handleFileSelectB
    \/ handleDropB
    \/ analyzeStatementDoneB

Spec == Init /\ [][Next]_vars

\* A pending request is eventually answered or fails, and the continuation of
\* analyzeStatement then runs.
FairSpec ==
    Spec /\ WF_vars(analyzeStatementDoneP) /\ WF_vars(analyzeStatementDoneB)

----------------------------------------------------------------------------
(* ResultsView: the recent-transactions list *)

\* The longest transactions list of a payload in the model.
MaxTransactions == 6

\* slice(0, 5) of the standalone ResultsView and of the platform-variant's.
RecentCountB == 5
RecentCountP == 5

\* Transaction.date is a string.  The last one names the instant of
\* "2024-01-02" in another format.
DateStrings ==
    {"2024-01-01", "2024-01-02", "2024-01-03", "2024-01-04", "2024-01-05",
     "2024-01-06", "2024-01-02T00:00:00Z"}

\* Dates that repeat an instant.
TieDateStrings == {"2024-01-01", "2024-01-02", "2024-01-02T00:00:00Z"}

\* new Date(date).getTime(), in days since the epoch: the comparator uses
\* only the sign of a difference.
getTime(date) ==
    CASE date = "2024-01-01" -> 19723
      [] date = "2024-01-02" -> 19724
      [] date = "2024-01-02T00:00:00Z" -> 19724
      [] date = "2024-01-03" -> 19725
      [] date = "2024-01-04" -> 19726
      [] date = "2024-01-05" -> 19727
      [] date = "2024-01-06" -> 19728

\* The Transaction objects with the given dates; the other fields play no
\* part in the list.
TransactionsDated(dates) == {[date |-> d] : d \in dates}

\* The lists of at most n transactions from S.
ListsOf(S, n) == UNION {[1..k -> S] : k \in 0..n}

\* The lists of at most n transactions from S without a repeated element.
RECURSIVE ListsWithoutRepeatOf(_, _)
ListsWithoutRepeatOf(S, n) ==
    IF n = 0 THEN {<<>>}
    ELSE LET shorter == ListsWithoutRepeatOf(S, n - 1)
             longest == {l \in shorter : Len(l) = n - 1}
         IN  shorter \cup
             UNION {{Append(l, t) : t \in S \ {l[i] : i \in 1..Len(l)}} :
                    l \in longest}

\* The transactions field of the payloads in the model: every short list
\* over dates with ties, and every list of distinct dated transactions.
TransactionLists ==
    ListsOf(TransactionsDated(TieDateStrings), MaxTransactions)
    \cup ListsWithoutRepeatOf(TransactionsDated(DateStrings), MaxTransactions)

MinOf(a, b) == IF a <= b THEN a ELSE b

\* The comparator with the operands of the subtraction exchanged.
compareDatesAscending(a, b) == getTime(a.date) - getTime(b.date)

\* (a, b) => new Date(b.date).getTime() - new Date(a.date).getTime()
compareDates(a, b) == getTime(b.date) - getTime(a.date)

\* Array.prototype.sort with compareDates.  The sort is stable: an element
\* goes behind every element the comparator does not put after it.
RECURSIVE insert(_, _)
insert(sorted, t) ==
    IF sorted = <<>> THEN <<t>>
    ELSE IF compareDates(Head(sorted), t) > 0 THEN <<t>> \o sorted
    ELSE <<Head(sorted)>> \o insert(Tail(sorted), t)

RECURSIVE sort(_)
sort(array) ==
    IF array = <<>> THEN <<>>
    ELSE insert(sort(SubSeq(array, 1, Len(array) - 1)), array[Len(array)])

\* Array.prototype.reverse
reverse(array) == [i \in 1..Len(array) |-> array[Len(array) + 1 - i]]

\* Array.prototype.slice(0, end)
slice(array, end) == SubSeq(array, 1, MinOf(end, Len(array)))

\* ResultsView of UPIAppGrid.tsx, the one the bank-variant's Kotak view
\* renders: [...transactions].sort(...).slice(0, 5)
recentTransactionsB(list) == slice(sort(list), RecentCountB)

\* ResultsView of the platform-variant: [...transactions].reverse().slice(0, 5)
recentTransactionsP(list) == slice(reverse(list), RecentCountP)

\* An analysis screen is about to render ResultsView: the flow is at
\* 'results' and the payload's transactions field is any list.
InitResultsView ==
    /\ variant \in {"platform", "bank"}
    /\ mounted = TRUE
    /\ currentView = IF variant = "platform" THEN "kotak-analysis" ELSE "kotak"
    /\ isSearchOpen = FALSE
    /\ selectedFile = [name |-> "jan.pdf", type |-> "application/pdf"]
    /\ analysisState = "results"
    /\ analysisResults = "Result1"
    /\ errorMessage = Null
    /\ requests = {}
    /\ response = NoResponse
    /\ alert = <<>>
    /\ transactions \in TransactionLists
    /\ recentTransactions = <<>>

\* ResultsView of the platform-variant (547-552).  reverse() works on the
\* spread copy; the transactions of the props are not assigned.
ResultsViewP ==
    /\ variant = "platform"
    /\ PlatformScreen \in AnalysisScreens
    /\ AnalysisContent(analysisState, analysisResults) = "ResultsView"
    /\ recentTransactions' = recentTransactionsP(transactions)
    /\ UNCHANGED <<variant, mounted, currentView, isSearchOpen, selectedFile,
                   analysisState, analysisResults, errorMessage, requests,
                   response, alert, transactions>>

\* The standalone ResultsView (UPIAppGrid.tsx:214-219).  sort() works on the
\* spread copy; the transactions of the props are not assigned.
ResultsViewB ==
    /\ variant = "bank"
    /\ BankScreen = "KotakAnalysisView"
    /\ AnalysisContent(analysisState, analysisResults) = "ResultsView"
    /\ recentTransactions' = recentTransactionsB(transactions)
    /\ UNCHANGED <<variant, mounted, currentView, isSearchOpen, selectedFile,
                   analysisState, analysisResults, errorMessage, requests,
                   response, alert, transactions>>

NextResultsView ==
    \/ ResultsViewP
    \/ ResultsViewB

SpecResultsView == InitResultsView /\ [][NextResultsView]_vars

----------------------------------------------------------------------------
(* The claims *)

IsPlatform == variant = "platform"
IsBank == variant = "bank"

\* The step into the current state handled an OK answer whose body is JSON.
AnsweredOkJson(resp) ==
    resp.kind = "http" /\ ResponseOk(resp.status) /\ resp.body # "NotJson"

\* The step into the current state handled a failed request: a network
\* failure, a body that is not JSON, or a non-OK status.
AnsweredFailure(resp) ==
    \/ resp.kind = "network"
    \/ resp.kind = "http" /\ (resp.body = "NotJson" \/ ~ResponseOk(resp.status))

\* C1: in both components analysisState becomes 'analyzing' only by a step out
\* of 'upload' and becomes 'results' only by a step out of 'analyzing'.
C1_Sequenced ==
    [][ /\ (analysisState' = "analyzing" /\ analysisState # "analyzing")
            => analysisState = "upload"
        /\ (analysisState' = "results" /\ analysisState # "results")
            => analysisState = "analyzing" ]_vars

\* C2: in the platform-variant at most one POST /analyze request is
\* outstanding at any time.
C2_PlatformSingleRequest == IsPlatform => Cardinality(requests) <= 1

\* C2 witness: a request is outstanding while the user has navigated home.
C2_Witness ==
    IsPlatform /\ Cardinality(requests) = 1 /\ currentView = "home"

\* C3: in the bank-variant at most one POST /analyze request is outstanding at
\* any time.
C3_BankSingleRequest == IsBank => Cardinality(requests) <= 1

\* C4: a step starts an analysis exactly when it issues one new POST /analyze
\* request; the request carries the file just selected and the discriminator
\* of the current view: platform = 'phonepe' on 'phonepe-analysis' and 'kotak'
\* on 'kotak-analysis' (no other view issues one), bank = currentView, which is
\* 'kotak' or 'phonepe'.
C4_OneRequestPerSelection ==
    [][ ( \/ requests' \ requests # {}
          \/ (analysisState' = "analyzing" /\ analysisState # "analyzing") )
        => \E r \in requests' \ requests :
             /\ requests' = requests \cup {r}
             /\ r \notin requests
             /\ r.method = "POST" /\ r.path = "/analyze"
             /\ r.file = selectedFile' /\ HasFile(r.file)
             /\ IsPlatform =>
                  /\ r.field = "platform"
                  /\ currentView \in {"phonepe-analysis", "kotak-analysis"}
                  /\ currentView = "phonepe-analysis" => r.value = "phonepe"
                  /\ currentView = "kotak-analysis" => r.value = "kotak"
             /\ IsBank =>
                  /\ r.field = "bank"
                  /\ r.value = currentView
                  /\ currentView \in {"kotak", "phonepe"} ]_vars

\* C4 witness: a request with platform = 'kotak' is pending on the Kotak
\* analysis view.
C4_Witness ==
    /\ IsPlatform /\ currentView = "kotak-analysis"
    /\ selectedFile = [name |-> "feb.pdf", type |-> "application/pdf"]
    /\ \E r \in requests : r.field = "platform" /\ r.value = "kotak"
                           /\ r.file = selectedFile

\* C5: in both components an OK answer with a JSON body sets analysisResults
\* to that payload and analysisState to 'results' in the same step, and no
\* other step assigns a non-null value to analysisResults.
C5_ResultsOnlyFromOkAnswer ==
    [][ /\ AnsweredOkJson(response')
            => /\ analysisResults' = ParseJson(response'.body)
               /\ analysisState' = "results"
        /\ (analysisResults' # analysisResults /\ analysisResults' # Null)
            => AnsweredOkJson(response') ]_vars

\* C5 witness: an OK answer carrying Result1 has just been handled.
C5_Witness ==
    /\ AnsweredOkJson(response) /\ response.body = "Result1"
    /\ analysisResults = "Result1" /\ analysisState = "results"

\* C6: in both components a failed request sets analysisState back to
\* 'upload', leaves analysisResults and currentView unchanged and is surfaced:
\* by an alert in the platform-variant, by a non-null errorMessage in the
\* bank-variant.
C6_FailureBackToUpload ==
    [][ AnsweredFailure(response')
        => /\ analysisState' = "upload"
           /\ analysisResults' = analysisResults
           /\ currentView' = currentView
           /\ IsPlatform => alert' # <<>>
           /\ IsBank => errorMessage' # Null ]_vars

\* C6 witness: in the bank-variant a failure arrived while results were shown;
\* the results are kept, the flow is back at 'upload' and the error is set.
C6_Witness ==
    /\ IsBank /\ AnsweredFailure(response)
    /\ analysisState = "upload" /\ analysisResults = "Result2"
    /\ errorMessage = "Invalid statement"

\* C7: in both components, when every pending request is eventually answered
\* or fails, every state with analysisState = 'analyzing' is followed by one
\* with analysisState = 'results' or 'upload'.
C7_AnalyzingEnds ==
    (analysisState = "analyzing") ~> (analysisState \in {"results", "upload"})

\* C7 witness: the flow is in 'analyzing' with its request pending.
C7_Witness ==
    analysisState = "analyzing" /\ requests # {} /\ currentView = "home"

\* C8: in the platform-variant a selected or dropped file that is missing or
\* whose MIME type is not 'application/pdf' issues no request: the user is
\* alerted, analysisState is 'upload' afterwards, and selectedFile and
\* analysisResults are unchanged.
C8_NonPdfRejected ==
    [][ \A file \in FileInputs :
          ( /\ (file = NoFile \/ file.type # "application/pdf")
            /\ \/ SelectOrDropP(file, "Please select a valid PDF file")
               \/ SelectOrDropP(file, "Please drop a valid PDF file") )
          => /\ requests' = requests
             /\ alert' \in {<<"Please select a valid PDF file">>,
                            <<"Please drop a valid PDF file">>}
             /\ analysisState' = "upload"
             /\ selectedFile' = selectedFile
             /\ analysisResults' = analysisResults ]_vars

\* C8 witness: after a failed analysis of jan.pdf a non-PDF drop was rejected;
\* the earlier selection is kept and nothing is pending.
C8_Witness ==
    /\ IsPlatform
    /\ alert = <<"Please drop a valid PDF file">>
    /\ analysisState = "upload"
    /\ selectedFile = [name |-> "jan.pdf", type |-> "application/pdf"]
    /\ requests = {}

\* C9: in the bank-variant no POST /analyze is issued for a file whose MIME
\* type is not 'application/pdf'.
C9_BankOnlyPdfSent ==
    IsBank => \A r \in requests : r.file.type = "application/pdf"

\* The View values that have no case of their own in renderCurrentView.
ViewsWithoutCase ==
    {"profile", "notifications", "notifications-settings", "report-issue",
     "signin", "favorites", "history"}

\* The screen each view is dispatched to, and the one shared analysisState and
\* analysisResults both analysis screens render their content from.
C10_Dispatch ==
    /\ \A view \in PlatformView :
         /\ view = "phonepe-analysis"
               => renderCurrentView(view) = "PhonePeAnalysisView"
         /\ view = "kotak-analysis"
               => renderCurrentView(view) = "KotakAnalysisView"
         /\ view \in ViewsWithoutCase \cup {"home"}
               => renderCurrentView(view) = "HomeView"
    /\ ViewsWithoutCase \subseteq PlatformView

\* C10 as stated: in the platform-variant the screen rendered is a function of
\* currentView alone, the one renderCurrentView dispatches to.
C10_ScreenByViewAlone ==
    IsPlatform => PlatformScreen = renderCurrentView(currentView) /\ C10_Dispatch

\* C10 amended: once the platform-variant has mounted, the screen rendered is
\* the one renderCurrentView dispatches currentView to; until then it is the
\* loading spinner, whatever currentView is.
C10_ScreenByViewOnceMounted ==
    IsPlatform =>
        /\ C10_Dispatch
        /\ mounted => PlatformScreen = renderCurrentView(currentView)
        /\ ~mounted => PlatformScreen = "LoadingSpinner"

\* C10 witness: the mounted component shows the Kotak analysis screen.
C10_Witness ==
    /\ IsPlatform /\ mounted /\ currentView = "kotak-analysis"
    /\ PlatformScreen = "KotakAnalysisView"
    /\ analysisState = "results"

\* C11: both components start with currentView = 'home', analysisState =
\* 'upload', selectedFile = null, analysisResults = null and errorMessage =
\* null, and analysisState is 'upload', 'analyzing' or 'results' in every
\* reachable state.
C11_InitialStateAndThreeStates ==
    /\ currentView = "home"
    /\ analysisState = "upload"
    /\ selectedFile = NoFile
    /\ analysisResults = Null
    /\ errorMessage = Null
    /\ [](analysisState \in {"upload", "analyzing", "results"})

\* C11 witness: each of the three values has been taken; the flow is at
\* 'results' after an analysis.
C11_Witness ==
    /\ analysisState = "results" /\ analysisResults = "Result2"
    /\ selectedFile # NoFile /\ currentView # "home"

\* C12: in the bank-variant every step that changes currentView leaves
\* selectedFile = null, analysisState = 'upload', analysisResults = null and
\* errorMessage = null, whatever the state was before.
C12_ViewChangeResets ==
    [][ (IsBank /\ currentView' # currentView)
        => /\ currentView' \in BankView
           /\ selectedFile' = NoFile
           /\ analysisState' = "upload"
           /\ analysisResults' = Null
           /\ errorMessage' = Null ]_vars

\* C12 witness: the view was changed to home during an analysis; the flow is
\* reset although the request is still pending.
C12_Witness ==
    /\ IsBank /\ currentView = "home" /\ requests # {}
    /\ selectedFile = NoFile /\ analysisState = "upload"
    /\ analysisResults = Null /\ errorMessage = Null

\* C13: in the platform-variant a step that changes currentView changes
\* nothing else of the flow: analysisState, analysisResults, selectedFile and
\* the pending requests are as before.
C13_NavigationKeepsFlow ==
    [][ (IsPlatform /\ currentView' # currentView)
        => /\ analysisState' = analysisState
           /\ analysisResults' = analysisResults
           /\ selectedFile' = selectedFile
           /\ requests' = requests ]_vars

\* C13 witness: a finished result is still there after navigating home.
C13_Witness ==
    /\ IsPlatform /\ currentView = "home" /\ response = NoResponse
    /\ analysisState = "results" /\ analysisResults = "Result1"
    /\ selectedFile = [name |-> "jan.pdf", type |-> "application/pdf"]

\* The next-state relation when a successful answer never carries the JSON
\* value null: every OK answer with a JSON body has a non-null payload.
PayloadNonNull(resp) ==
    ~(AnsweredOkJson(resp) /\ ParseJson(resp.body) = Null)

NextPayloadNonNull ==
    \/ Mount
    \/ ClickP
    \/ handleFileSelectP
    \/ handleDropP
    \/ analyzeStatementDoneP /\ PayloadNonNull(response')
    \/ ClickB
    \/ Dismiss
    \/ handleFileSelectB
    \/ handleDropB
    \/ analyzeStatementDoneB /\ PayloadNonNull(response')

SpecPayloadNonNull == Init /\ [][NextPayloadNonNull]_vars

\* C14: in both components, when successful answers carry a non-null payload,
\* analysisState = 'results' implies analysisResults is not null, so the
\* analysis screens never render 'Error: Analysis results are not available.'
C14_ResultsAvailable ==
    /\ analysisState = "results" => analysisResults # Null
    /\ AnalysisContent(analysisState, analysisResults) # "ResultsNotAvailable"

\* C14 witness: the bank-variant shows results although an earlier request is
\* still pending.
C14_Witness ==
    /\ IsBank /\ analysisState = "results" /\ requests # {}
    /\ AnalysisContent(analysisState, analysisResults) = "ResultsView"

\* C15: in the bank-variant, whenever a step shows results (analysisState =
\* 'results'), they answer the request issued for the currently selected file:
\* the answered request carried selectedFile and no request issued after it is
\* pending.
C15_ResultsOfSelectedFile ==
    [][ (IsBank /\ analysisState' = "results" /\ response' # NoResponse)
        => \E r \in requests \ requests' :
             /\ r.id = response'.id
             /\ r.file = selectedFile'
             /\ requests' = {} ]_vars

\* C16: in the bank-variant errorMessage is null whenever analysisState is
\* 'analyzing' or 'results'.
C16_ErrorOnlyInUpload ==
    IsBank => (analysisState \in {"analyzing", "results"} => errorMessage = Null)

\* Where the Kotak screen of the bank-variant shows its error banner.
BannerAsClaimed ==
    BankScreen = "KotakAnalysisView" =>
        (ErrorBannerRendered <=> (analysisState = "upload" /\ errorMessage # Null))

\* C17: on the Kotak screen of the bank-variant the error banner is shown
\* exactly when analysisState = 'upload' and errorMessage is not null, and
\* Dismiss sets errorMessage to null and leaves analysisState,
\* analysisResults, selectedFile and currentView unchanged.
C17_BannerAndDismiss ==
    [][ IsBank =>
          /\ BannerAsClaimed
          /\ BannerAsClaimed'
          /\ Dismiss => /\ errorMessage' = Null
                        /\ analysisState' = analysisState
                        /\ analysisResults' = analysisResults
                        /\ selectedFile' = selectedFile
                        /\ currentView' = currentView ]_vars

\* C17 witness: a failed analysis of feb.pdf whose error has been dismissed;
\* the selection and the 'upload' state are as the failure left them.
C17_Witness ==
    /\ IsBank /\ currentView = "kotak" /\ analysisState = "upload"
    /\ selectedFile = [name |-> "feb.pdf", type |-> "application/pdf"]
    /\ errorMessage = Null /\ requests = {} /\ response = NoResponse
    /\ ~ErrorBannerRendered

\* The text the claim gives for a non-OK answer: the payload's detail, or
\* `fallback` when there is none.
DetailOr(body, fallback) ==
    IF Detail(body) # Null THEN Detail(body) ELSE fallback

\* C18: when the backend answers with a non-OK status N, the bank-variant's
\* errorMessage becomes the payload's detail, or 'HTTP error! status: N'
\* without one; the platform-variant alerts 'Analysis failed: ' followed by
\* the detail, or by 'Failed to analyze statement' without one.
C18_NonOkMessage ==
    [][ (response'.kind = "http" /\ ~ResponseOk(response'.status))
        => /\ IsBank =>
                errorMessage' = DetailOr(response'.body,
                                         HttpErrorText(response'.status))
           /\ IsPlatform =>
                alert' = <<"Analysis failed: ",
                           DetailOr(response'.body, "Failed to analyze statement")>>
      ]_vars

\* C19: in the bank-variant currentView is never 'phonepe' nor 'results', the
\* 'PhonePe Analysis is coming soon.' placeholder is never shown, and every
\* request carries bank = 'kotak'.
C19_PhonePeUnreachable ==
    IsBank =>
        /\ currentView \notin {"phonepe", "results"}
        /\ currentView \in {"home", "kotak"}
        /\ BankScreen # "PhonePeComingSoon"
        /\ \A r \in requests : r.field = "bank" /\ r.value = "kotak"

\* C19 witness: two requests are pending, both with bank = 'kotak'.
C19_Witness ==
    /\ IsBank /\ currentView = "kotak" /\ Cardinality(requests) = 2
    /\ \A r \in requests : r.value = "kotak"

\* C20: in the platform-variant, once analysisState = 'results' every step
\* keeps analysisState and analysisResults and issues no request.
C20_ResultsAbsorbing ==
    [][ (IsPlatform /\ analysisState = "results")
        => /\ analysisState' = "results"
           /\ analysisResults' = analysisResults
           /\ requests' = {} ]_vars

\* C20 witness: with results present the user has gone home and re-entered
\* the other analysis screen; no upload zone is offered.
C20_Witness ==
    /\ IsPlatform /\ analysisState = "results" /\ analysisResults = "Result1"
    /\ currentView = "phonepe-analysis" /\ response = NoResponse
    /\ ~UploadZoneRenderedP

\* The platform discriminator that belongs to an analysis screen.
PlatformOfScreen(screen) ==
    IF screen = "KotakAnalysisView" THEN "kotak" ELSE "phonepe"

\* C21: in the platform-variant, when a step makes an analysis screen show the
\* results of the request it answered, that request's platform is the
\* screen's: the Kotak screen never shows the result of a 'phonepe' request
\* and the PhonePe screen never that of a 'kotak' request.
C21_ResultsMatchScreen ==
    [][ ( /\ IsPlatform
          /\ response' # NoResponse
          /\ PlatformScreen' \in AnalysisScreens
          /\ AnalysisContent(analysisState', analysisResults') = "ResultsView" )
        => \A r \in requests \ requests' :
             r.value = PlatformOfScreen(PlatformScreen') ]_vars

\* C22: in the platform-variant currentView is 'home', 'phonepe-analysis' or
\* 'kotak-analysis' in every reachable state, and isSearchOpen is false in
\* every reachable state.
C22_ThreeViewsNoSearch ==
    IsPlatform =>
        /\ currentView \in {"home", "phonepe-analysis", "kotak-analysis"}
        /\ isSearchOpen = FALSE
        /\ \A c \in ControlsP : c.kind = "setCurrentView"

\* C22 witness: the mounted home screen after a visit to an analysis screen,
\* where a file was analysed; its controls are the two analysis cards.
C22_Witness ==
    /\ IsPlatform /\ mounted /\ currentView = "home" /\ ~isSearchOpen
    /\ analysisState = "results"
    /\ {c.view : c \in ControlsP} = {"phonepe-analysis", "kotak-analysis"}

\* The Kotak analysis view of the component, and a step that stays on it.
KotakViewOf == IF IsPlatform THEN "kotak-analysis" ELSE "kotak"

InKotakFlow ==
    /\ currentView = KotakViewOf /\ currentView' = KotakViewOf
    /\ IsPlatform => mounted

\* The upload zone of the component's Kotak analysis view is rendered.
UploadZoneRendered ==
    IF IsPlatform THEN UploadZoneRenderedP ELSE UploadZoneRenderedB

\* The flow of the Kotak analysis view as one transition function of the
\* observed pair (analysisState, analysisResults) and the input of the step,
\* the same for both components: a PDF selection gives 'analyzing' and issues
\* one request for the file with discriminator value 'kotak', an answer gives
\* 'results' with the payload or 'upload' with the results kept, any other
\* step leaves the pair and the requests alone.  With sameField the request of
\* either component also carries the field name of the platform-variant.
KotakFlowStep(sameField) ==
    /\ UploadZoneRendered <=> analysisState = "upload"
    /\ (requests' \ requests # {} /\ IsPdfFile(selectedFile'))
         => /\ analysisState' = "analyzing"
            /\ analysisResults' = analysisResults
            /\ \E r \in requests' \ requests :
                 /\ requests' = requests \cup {r}
                 /\ r.method = "POST" /\ r.path = "/analyze"
                 /\ r.file = selectedFile'
                 /\ r.value = PlatformOf("kotak-analysis")
                 /\ sameField => r.field = "platform"
    /\ response' # NoResponse
         => /\ <<analysisState', analysisResults'>> =
                  IF AnsweredOkJson(response')
                  THEN <<"results", ParseJson(response'.body)>>
                  ELSE <<"upload", analysisResults>>
            /\ requests' \subseteq requests
    /\ (requests' = requests /\ response' = NoResponse)
         => <<analysisState', analysisResults'>> = <<analysisState, analysisResults>>

\* C23 as claimed: on steps that stay on the Kotak analysis view and select
\* only PDF files, both components follow the same transition function of
\* (analysisState, analysisResults) and issue the same requests for the same
\* file selections and backend answers.
C23_SameFlowSameRequests == [][ InKotakFlow => KotakFlowStep(TRUE) ]_vars

\* C23 amended: on steps that stay on the Kotak analysis view and select only
\* PDF files, both components follow the same transition function of
\* (analysisState, analysisResults) and issue requests that agree in method,
\* path, file and discriminator value 'kotak'; the name of the discriminator
\* field is left to the component.
C23_SameFlowRequestsUpToField == [][ InKotakFlow => KotakFlowStep(FALSE) ]_vars

\* C23 witness: the bank-variant on its Kotak view has failed on jan.pdf or
\* an earlier file, then analysed feb.pdf: the answer just handled put Result2
\* on the screen.
C23_Witness ==
    /\ IsBank /\ currentView = "kotak"
    /\ selectedFile = [name |-> "feb.pdf", type |-> "application/pdf"]
    /\ AnsweredOkJson(response) /\ analysisState = "results"
    /\ analysisResults = "Result2" /\ errorMessage = Null /\ requests = {}

\* The list holds its transactions in strictly ascending date order.
StrictlyAscending(list) ==
    \A i \in 1..Len(list) - 1 :
        getTime(list[i].date) < getTime(list[i + 1].date)

\* How often a transaction occurs in a list.
Occurrences(t, list) == Cardinality({i \in 1..Len(list) : list[i] = t})

\* The rows are the last min(5, n) transactions of the list, last one first.
LastFirst(rows, list) ==
    /\ Len(rows) = MinOf(5, Len(list))
    /\ \A i \in 1..Len(rows) : rows[i] = list[Len(list) + 1 - i]

\* The rows are min(5, n) of the list's transactions, in non-increasing date
\* order, and no transaction left out is later than one listed.
LatestFirst(rows, list) ==
    /\ Len(rows) = MinOf(5, Len(list))
    /\ \A i \in 1..Len(rows) - 1 :
         getTime(rows[i].date) >= getTime(rows[i + 1].date)
    /\ \A i \in 1..Len(rows) :
         Occurrences(rows[i], rows) <= Occurrences(rows[i], list)
    /\ \A k \in 1..Len(list) :
         Occurrences(list[k], rows) < Occurrences(list[k], list)
           => \A i \in 1..Len(rows) :
                getTime(list[k].date) <= getTime(rows[i].date)

\* C24: for transactions whose dates parse, the standalone ResultsView lists
\* min(5, n) of the n transactions, those with the latest dates, in
\* non-increasing date order, and leaves analysisResults.transactions as it
\* was; the platform-variant's ResultsView lists the last min(5, n)
\* transactions in reverse input order; on an input in strictly ascending
\* date order either ResultsView lists the last min(5, n) in reverse order,
\* so the two lists coincide.
C24_RecentTransactions ==
    [][ /\ transactions' = transactions
        /\ IsBank => LatestFirst(recentTransactions', transactions)
        /\ IsPlatform => LastFirst(recentTransactions', transactions)
        /\ StrictlyAscending(transactions)
             => /\ LastFirst(recentTransactions', transactions)
                /\ recentTransactions' = recentTransactionsB(transactions)
                /\ recentTransactions' = recentTransactionsP(transactions)
      ]_vars

\* C24 witness: the standalone ResultsView has listed five of six
\* transactions given out of date order, two of them at the same instant:
\* the latest first, the two of 2 January in input order, 1 January left out.
C24_Witness ==
    /\ IsBank
    /\ transactions =
         << [date |-> "2024-01-03"], [date |-> "2024-01-02T00:00:00Z"],
            [date |-> "2024-01-06"], [date |-> "2024-01-02"],
            [date |-> "2024-01-01"], [date |-> "2024-01-04"] >>
    /\ recentTransactions =
         << [date |-> "2024-01-06"], [date |-> "2024-01-04"],
            [date |-> "2024-01-03"], [date |-> "2024-01-02T00:00:00Z"],
            [date |-> "2024-01-02"] >>

====
